---- MODULE Spec2Model ----
(***************************************************************************)
(* A model of calendar.c, a cal clone.  The program is sequential: run     *)
(* resolves the range of months, print_year / print_calendar render row    *)
(* batches of up to three months, and print_day_numbers interleaves the    *)
(* day grids of a batch one week-row at a time.  Standard output is kept   *)
(* as the sequence of finished lines plus the line being written.          *)
(***************************************************************************)
EXTENDS Integers, Sequences, FiniteSets, TLC

VARIABLES
    pc,             \* position of the program
    ret,            \* where print_calendar returns to
    arg,            \* the arguments main passed to run (kept for reference)
    date,           \* what get_current_date returns: [mday, mon, year]
    y, m, n, w, s,  \* locals of run
    i,              \* loop counter of print_year
    heading_len,    \* local of print_year (0 outside print_year)
    call,           \* arguments of the current print_calendar call
    num_days,       \* the global table num_days[12]
    remaining_days, start_day, days_printed, week,  \* locals of print_day_numbers
    pdn_n,          \* print_day_numbers' n after "n--"
    month_pointer, day_pointer,
    out,            \* finished output lines
    line,           \* the output line being written
    esc,            \* number of escape-sequence characters in line
    grid_base,      \* Len(out) when the day-grid loop of the batch started
    printed,        \* per month of the batch, the days printed so far with their place
    calls           \* the print_calendar calls made so far

vars == <<pc, ret, arg, date, y, m, n, w, s, i, heading_len, call, num_days,
          remaining_days, start_day, days_printed, week, pdn_n, month_pointer,
          day_pointer, out, line, esc, grid_base, printed, calls>>

run_vars == <<arg, date, y, m, n, w, s, i, heading_len>>
pdn_vars == <<remaining_days, start_day, days_printed, week, pdn_n,
              month_pointer, day_pointer, grid_base, printed>>

(***************************************************************************)
(* Bounds of the model.                                                    *)
(***************************************************************************)
MinYear == 2017
MaxYear == 2030
MaxCount == 14
NegCount == 2

\* Years outside MinYear..MaxYear that exercise the epoch and the century rules.
CenturyYears == {1, 4, 100, 400, 1900, 2000}
Years == (MinYear..MaxYear) \cup CenturyYears
\* Years given to run with -y; 0 stands for "no -y".
RunYears == {0, 2023, 2024}
Counts == (0 - NegCount)..MaxCount
\* Dates the system clock may report.
Todays == { [mday |-> 15, mon |-> 5, year |-> 2023],
            [mday |-> 29, mon |-> 1, year |-> 2024] }

(***************************************************************************)
(* Program constants.                                                      *)
(***************************************************************************)
month_name == [k \in 0..11 |->
    CASE k = 0 -> "January"  [] k = 1 -> "February" [] k = 2 -> "March"
      [] k = 3 -> "April"    [] k = 4 -> "May"      [] k = 5 -> "June"
      [] k = 6 -> "July"     [] k = 7 -> "August"   [] k = 8 -> "September"
      [] k = 9 -> "October"  [] k = 10 -> "November" [] k = 11 -> "December"]
day_names == "Su Mo Tu We Th Fr Sa"
num_days_init == [k \in 0..11 |->
    CASE k \in {0, 2, 4, 6, 7, 9, 11} -> 31
      [] k \in {3, 5, 8, 10} -> 30
      [] k = 1 -> 28]
WHTB == "^[[30m^[[47m"
RST == "^[[0m"
\* A local array element that was never assigned.
Uninit == "uninit"

(***************************************************************************)
(* Pure functions.  The program computes in int; for the years and counts  *)
(* of the model every intermediate value is far below 2^31 - 1 (the        *)
(* largest, 1 + (y - 1) * 365 + leaps + 366, stays under 750000), so the   *)
(* integer operators below and C's agree, and division and remainder are   *)
(* only applied to non-negative values.                                    *)
(***************************************************************************)
is_leap_year(yy) == (yy % 4 = 0 /\ yy % 100 # 0) \/ yy % 400 = 0

RECURSIVE sum_num_days(_, _)
\* for(i = 0; i < mm; i++) total += nd[i]
sum_num_days(nd, mm) == IF mm <= 0 THEN 0 ELSE sum_num_days(nd, mm - 1) + nd[mm - 1]

\* Mutant: the loop runs one month too far (i <= m).
month_start_day_off(yy, mm, nd) ==
    (1 + (yy - 1) * 365
       + (((yy - 1) \div 4) + ((yy - 1) \div 400) - ((yy - 1) \div 100))
       + sum_num_days(nd, mm + 1)) % 7

\* nd is the table num_days as it stands when the function is called.
month_start_day(yy, mm, nd) ==
    LET leaps == ((yy - 1) \div 4) + ((yy - 1) \div 400) - ((yy - 1) \div 100)
        total_days == 1 + (yy - 1) * 365 + leaps + sum_num_days(nd, mm)
    IN  total_days % 7

\* Mutant: the weekday of January 1 is left out of the day count.
month_start_week_jan1(yy, mm, nd) == 1 + (sum_num_days(nd, mm) \div 7)

month_start_week(yy, mm, nd) ==
    LET total_days == month_start_day(yy, 0, nd) + sum_num_days(nd, mm)
    IN  1 + (total_days \div 7)

RECURSIVE year_char_len(_)
year_char_len(yy) == IF yy = 0 THEN 0 ELSE 1 + year_char_len(yy \div 10)

RECURSIVE print_spaces(_)
print_spaces(k) == IF k <= 0 THEN "" ELSE " " \o print_spaces(k - 1)

\* printf("%d", k) for k >= 0
print_int(k) == ToString(k)

\* "if(k < 10) print_spaces(1); printf("%d", k)"
print_2d(k) == (IF k < 10 THEN " " ELSE "") \o print_int(k)

(***************************************************************************)
(* print_heading: the two lines it writes.                                 *)
(***************************************************************************)
RECURSIVE heading_names(_, _, _, _, _, _)
heading_names(yy, mm, nn, ww, ss, k) ==
    IF k >= nn THEN ""
    ELSE LET include_year == IF ss = 1 THEN year_char_len(yy) + 1 ELSE 0
             month_name_len == Len(month_name[mm + k])
             num_spaces == (20 - (month_name_len + include_year)) \div 2
             remainder == (20 - (month_name_len + include_year)) % 2
         IN  print_spaces(num_spaces + (ww * 3))
               \o month_name[mm + k]
               \o (IF ss = 1 THEN " " \o print_int(yy) ELSE "")
               \o print_spaces(num_spaces + remainder + 2 + ww)
               \o heading_names(yy, mm, nn, ww, ss, k + 1)

RECURSIVE heading_days(_, _, _)
heading_days(nn, ww, k) ==
    IF k >= nn THEN ""
    ELSE (IF ww # 0 THEN print_spaces(3) ELSE "")
           \o day_names \o print_spaces(2 + ww)
           \o heading_days(nn, ww, k + 1)

print_heading(yy, mm, nn, ww, ss) ==
    << heading_names(yy, mm, nn, ww, ss, 0), heading_days(nn, ww, 0) >>

(***************************************************************************)
(* print_calendar: sets February for the year, writes the heading, and     *)
(* enters print_day_numbers.                                               *)
(***************************************************************************)
\* Mutant: February is never adjusted for leap years.
february_stale(yy) == 28

february(yy) == IF is_leap_year(yy) THEN 29 ELSE 28

print_calendar ==
    /\ pc = "print_calendar"
    /\ num_days' = [num_days EXCEPT ![1] = february(call.y)]
    /\ LET h == print_heading(call.y, call.m, call.n, call.w, call.s)
       IN  /\ out' = out \o << line \o h[1], h[2] >>
           /\ line' = ""
           /\ esc' = 0
    /\ pc' = "print_day_numbers"
    /\ UNCHANGED <<ret, call, calls, run_vars, pdn_vars>>

\* Lines 210-229: the locals of print_day_numbers.
print_day_numbers ==
    /\ pc = "print_day_numbers"
    /\ remaining_days' = sum_num_days(num_days, call.m + call.n) - sum_num_days(num_days, call.m)
    /\ start_day' = [k \in 0..(call.n - 1) |-> month_start_day(call.y, call.m + k, num_days)]
    /\ days_printed' = [k \in 0..(call.n - 1) |-> 1]
    /\ week' = [k \in 0..(call.n - 1) |->
                  IF call.w # 0 THEN month_start_week(call.y, call.m + k, num_days)
                  ELSE Uninit]
    /\ pdn_n' = call.n - 1
    /\ month_pointer' = 0
    /\ day_pointer' = 0
    /\ grid_base' = Len(out)
    /\ printed' = [k \in 0..(call.n - 1) |-> << >>]
    /\ pc' = "pdn_loop"
    /\ UNCHANGED <<ret, call, calls, run_vars, num_days, out, line, esc>>

\* Is the cell about to be printed today's date (line 255)?
is_today == /\ call.y = date.year
            /\ call.m + month_pointer = date.mon
            /\ days_printed[month_pointer] = date.mday

\* Which of the three branches of lines 246-276 one loop iteration takes.
cell_kind ==
    IF start_day[month_pointer] > 0 THEN "lead"
    ELSE IF days_printed[month_pointer] > num_days[month_pointer + call.m] THEN "pad"
    ELSE "day"

\* Mutant: remaining_days counts down on the padding cells as well.
remaining_after_always(kind) == remaining_days - 1

remaining_after(kind) == IF kind = "day" THEN remaining_days - 1 ELSE remaining_days

\* Mutant: the leading blanks are one cell short.
lead_pointer_short(sd) == sd - 1

\* day_pointer after the leading blank cells of a month (line 248).
lead_pointer(sd) == sd

\* One iteration of the while loop of print_day_numbers (lines 232-288).
pdn_step ==
    /\ pc = "pdn_loop"
    /\ remaining_days > 0
    /\ LET mp == month_pointer
           kind == cell_kind
           week_printed == call.w # 0 /\ day_pointer = 0
                             /\ days_printed[mp] <= num_days[mp + call.m]
           week_text ==
               IF week_printed THEN print_2d(week[mp]) \o " "
               ELSE IF call.w # 0 /\ day_pointer = 0 THEN print_spaces(3)
               ELSE ""
           today == kind = "day" /\ is_today
           cell_text ==
               CASE kind = "lead" -> print_spaces(start_day[mp] * 3)
                 [] kind = "pad" -> print_spaces((7 - day_pointer) * 3)
                 [] kind = "day" ->
                      IF today
                      THEN WHTB \o print_2d(days_printed[mp]) \o RST \o print_spaces(1)
                      ELSE print_2d(days_printed[mp]) \o " "
           dp == CASE kind = "lead" -> lead_pointer(start_day[mp])
                   [] kind = "pad" -> 7
                   [] kind = "day" -> day_pointer + 1
           esc1 == IF today THEN esc + Len(WHTB) + Len(RST) ELSE esc
           next_month == dp % 7 = 0 /\ mp # pdn_n
           new_line == dp % 7 = 0 /\ mp = pdn_n
       IN  /\ week' = IF week_printed THEN [week EXCEPT ![mp] = @ + 1] ELSE week
           /\ start_day' = IF kind = "lead" THEN [start_day EXCEPT ![mp] = -1]
                           ELSE start_day
           /\ days_printed' = IF kind = "day" THEN [days_printed EXCEPT ![mp] = @ + 1]
                              ELSE days_printed
           /\ remaining_days' = remaining_after(kind)
           /\ printed' = IF kind = "day"
                         THEN [printed EXCEPT ![mp] = Append(@,
                                 [day |-> days_printed[mp],
                                  row |-> Len(out) - grid_base,
                                  col |-> day_pointer,
                                  pos |-> Len(line \o week_text) - esc])]
                         ELSE printed
           /\ IF new_line
              THEN /\ out' = Append(out, line \o week_text \o cell_text)
                   /\ line' = ""
                   /\ esc' = 0
                   /\ month_pointer' = 0
                   /\ day_pointer' = 0
              ELSE IF next_month
              THEN /\ out' = out
                   /\ line' = line \o week_text \o cell_text \o print_spaces(1 + call.w)
                   /\ esc' = esc1
                   /\ month_pointer' = mp + 1
                   /\ day_pointer' = 0
              ELSE /\ out' = out
                   /\ line' = line \o week_text \o cell_text
                   /\ esc' = esc1
                   /\ month_pointer' = mp
                   /\ day_pointer' = dp
    /\ pc' = "pdn_loop"
    /\ UNCHANGED <<ret, call, calls, run_vars, num_days, pdn_n, grid_base>>

\* Mutant: no newline is written after the loop.
after_loop_none(o, l) == o

\* printf("\n") after the loop (line 289): the line being written is finished.
after_loop(o, l) == Append(o, l)

\* The loop condition fails: the final newline, and print_calendar returns.
pdn_exit ==
    /\ pc = "pdn_loop"
    /\ remaining_days <= 0
    /\ out' = after_loop(out, line)
    /\ line' = ""
    /\ esc' = 0
    /\ pc' = ret
    /\ UNCHANGED <<ret, call, calls, run_vars, num_days, pdn_vars>>

(***************************************************************************)
(* SpecCal: one print_calendar call, for every batch run can ask for.      *)
(***************************************************************************)
Batches == { b \in [y : Years, m : 0..11, n : 1..3, w : {0, 1}, s : {0, 1}] :
               /\ b.m + b.n <= 12
               /\ (b.s = 1 => b.n = 1) }

InitCal ==
    /\ call \in Batches
    /\ date \in Todays
    /\ pc = "print_calendar"
    /\ ret = "done"
    /\ arg = [y |-> call.y, m |-> call.m, n |-> call.n, w |-> call.w]
    /\ y = call.y /\ m = call.m /\ n = call.n /\ w = call.w /\ s = call.s
    /\ i = 0
    /\ heading_len = 0
    /\ num_days = num_days_init
    /\ remaining_days = 0
    /\ start_day = << >> /\ days_printed = << >> /\ week = << >>
    /\ pdn_n = 0 /\ month_pointer = 0 /\ day_pointer = 0
    /\ out = << >> /\ line = "" /\ esc = 0 /\ grid_base = 0
    /\ printed = << >>
    /\ calls = << [m |-> call.m, n |-> call.n, s |-> call.s, nl |-> 0, at |-> 0] >>

NextCal == print_calendar \/ print_day_numbers \/ pdn_step \/ pdn_exit

SpecCal == InitCal /\ [][NextCal]_vars

(***************************************************************************)
(* run and print_year.                                                     *)
(***************************************************************************)
\* A call of print_calendar from run or print_year; nl is the number of
\* newlines the caller wrote right before the call, at the number of output
\* lines finished when the call is made.
enter_calendar(yy, mm, nn, ww, ss, nl, at, back) ==
    /\ call' = [y |-> yy, m |-> mm, n |-> nn, w |-> ww, s |-> ss]
    /\ calls' = Append(calls, [m |-> mm, n |-> nn, s |-> ss, nl |-> nl, at |-> at])
    /\ ret' = back
    /\ pc' = "print_calendar"

\* Mutant: the count is never clamped to the end of the year.
resolve_count_unclamped(mm, nn) == IF nn < 1 THEN 1 ELSE nn

\* Lines 354-358, for a count other than 12.
resolve_count(mm, nn) ==
    IF mm + nn > 12 THEN 12 - mm
    ELSE IF nn < 1 THEN 1
    ELSE nn

\* Lines 339-373 up to the first call run makes.
run ==
    /\ pc = "run"
    /\ IF y > 0 /\ m < 0
       THEN /\ pc' = "print_year"
            /\ UNCHANGED <<y, m, n, s, call, calls, ret>>
       ELSE LET y1 == IF y < 1 THEN date.year ELSE y
                m1 == IF m < 0 THEN date.mon ELSE m
            IN  /\ y' = y1
                /\ m' = m1
                /\ IF n = 12
                   THEN /\ pc' = "print_year"
                        /\ UNCHANGED <<n, s, call, calls, ret>>
                   ELSE LET n1 == resolve_count(m1, n)
                        IN  /\ n' = n1
                            /\ IF n1 > 3
                               THEN /\ pc' = "run_while"
                                    /\ UNCHANGED <<s, call, calls, ret>>
                               ELSE /\ s' = IF n1 = 1 THEN 1 ELSE 0
                                    /\ enter_calendar(y1, m1, n1, w, s', 0, Len(out), "done")
    /\ UNCHANGED <<arg, date, w, i, heading_len, num_days, pdn_vars, out, line, esc>>

\* Mutant: every remaining month goes into one batch.
batch_size_all(nn) == nn

\* Lines 360 and 367: the size of the next batch of the n > 3 path.
batch_size(nn) == IF nn > 3 THEN 3 ELSE nn

\* Lines 360-362 and 366-368: a blank line, then the next batch.
run_while ==
    /\ pc = "run_while"
    /\ out' = Append(out, line)
    /\ line' = ""
    /\ esc' = 0
    /\ enter_calendar(y, m, batch_size(n), w, 0, 1, Len(out) + 1,
                      IF n > 3 THEN "run_while_ret" ELSE "done")
    /\ UNCHANGED <<run_vars, num_days, pdn_vars>>

\* Lines 363-364.
run_while_ret ==
    /\ pc = "run_while_ret"
    /\ m' = m + 3
    /\ n' = n - 3
    /\ pc' = "run_while"
    /\ UNCHANGED <<ret, arg, date, y, w, s, i, heading_len, call, num_days,
                   pdn_vars, out, line, esc, calls>>

\* Line 315.
year_heading_len(ww) == IF ww # 0 THEN 78 ELSE 64

\* Lines 315-321: the centred year and the blank line under it.
print_year ==
    /\ pc = "print_year"
    /\ heading_len' = year_heading_len(w)
    /\ LET year_len == year_char_len(y)
           num_spaces == (heading_len' - year_len) \div 2
       IN  out' = out \o << line, print_spaces(num_spaces) \o print_int(y), "" >>
    /\ line' = ""
    /\ esc' = 0
    /\ i' = 0
    /\ pc' = "print_year_for"
    /\ UNCHANGED <<ret, arg, date, y, m, n, w, s, call, num_days, pdn_vars, calls>>

\* Line 323.
print_year_for ==
    /\ pc = "print_year_for"
    /\ i < 4
    /\ enter_calendar(y, i * 3, 3, w, 0, 0, Len(out), "print_year_ret")
    /\ UNCHANGED <<run_vars, num_days, pdn_vars, out, line, esc>>

\* Line 324 and the loop increment; after the fourth batch print_year returns.
print_year_ret ==
    /\ pc = "print_year_ret"
    /\ out' = Append(out, line)
    /\ line' = ""
    /\ esc' = 0
    /\ i' = i + 1
    /\ pc' = IF i + 1 < 4 THEN "print_year_for" ELSE "done"
    /\ UNCHANGED <<ret, arg, date, y, m, n, w, s, heading_len, call, num_days,
                   pdn_vars, calls>>

(***************************************************************************)
(* Spec: the program from the call of run in main.                         *)
(***************************************************************************)
Init ==
    /\ arg \in [y : RunYears, m : (0 - 1)..11, n : Counts, w : {0, 1}]
    /\ date \in Todays
    /\ pc = "run"
    /\ ret = "done"
    /\ y = arg.y /\ m = arg.m /\ n = arg.n /\ w = arg.w /\ s = 0
    /\ i = 0
    /\ heading_len = 0
    /\ call = [y |-> 0, m |-> 0, n |-> 0, w |-> 0, s |-> 0]
    /\ num_days = num_days_init
    /\ remaining_days = 0
    /\ start_day = << >> /\ days_printed = << >> /\ week = << >>
    /\ pdn_n = 0 /\ month_pointer = 0 /\ day_pointer = 0
    /\ out = << >> /\ line = "" /\ esc = 0 /\ grid_base = 0
    /\ printed = << >>
    /\ calls = << >>

Next ==
    \/ run
    \/ run_while
    \/ run_while_ret
    \/ print_year
    \/ print_year_for
    \/ print_year_ret
    \/ print_calendar
    \/ print_day_numbers
    \/ pdn_step
    \/ pdn_exit

Spec == Init /\ [][Next]_vars

\* The program runs to completion: no step is postponed forever.
FairSpecCal == SpecCal /\ WF_vars(NextCal)

(***************************************************************************)
(* What the claims are stated in.                                          *)
(***************************************************************************)
\* The length of month mm of year yy, with 29 days in February iff yy is leap.
daysInMonth(yy, mm) == IF mm = 1 THEN (IF is_leap_year(yy) THEN 29 ELSE 28)
                       ELSE num_days_init[mm]

RECURSIVE DaysBefore(_, _)
\* The days of year yy that lie before its month mm.
DaysBefore(yy, mm) == IF mm <= 0 THEN 0
                      ELSE DaysBefore(yy, mm - 1) + daysInMonth(yy, mm - 1)

Min(a, b) == IF a < b THEN a ELSE b
Max(a, b) == IF a > b THEN a ELSE b

\* print_calendar has set February for the year of the call.
FebruarySet == pc \in {"print_day_numbers", "pdn_loop", "done"}

\* print_day_numbers has set its locals and the loop has not run yet.
GridFresh == pc = "pdn_loop" /\ Len(out) = grid_base /\ line = ""

\* The day grid is being printed or is complete.
InGrid == pc \in {"pdn_loop", "done"} /\ DOMAIN printed = 0..(call.n - 1)

\* The week-rows in which month k of the batch has a day.
RowsOf(k) == { printed[k][j].row : j \in 1..Len(printed[k]) }

\* The last week-row in which any day was printed.
LastRow == CHOOSE r \in UNION { RowsOf(k) : k \in DOMAIN printed } :
               \A k \in DOMAIN printed : \A q \in RowsOf(k) : q <= r

\* The last day printed is in the Saturday column of the last month.
EndsOnLastSaturday ==
    LET k == call.n - 1
        e == printed[k][Len(printed[k])]
    IN  e.row = LastRow /\ e.col = 6

\* The month run starts from: the one given with -m, else the current one.
StartMonth == IF arg.m < 0 THEN date.mon ELSE arg.m

\* "-y without -m": the whole year is asked for.
YearOnly == arg.y > 0 /\ arg.m < 0

\* The count after defaulting and clamping.
ResolvedCount == Min(Max(arg.n, 1), 12 - StartMonth)

RECURSIVE MonthsIn(_, _)
\* The number of months the first k calls render.
MonthsIn(cs, k) == IF k = 0 THEN 0 ELSE MonthsIn(cs, k - 1) + cs[k].n

\* run(2023, 0, 1, 0): January 2023 without week numbers.
January2023 == arg = [y |-> 2023, m |-> 0, n |-> 1, w |-> 0]

(***************************************************************************)
(* C1.  During a render of year y, month_start_day(y, m) is in 0..6 for    *)
(* every month m, and the start day of month m+1 is the start day of month *)
(* m plus the length of month m, modulo 7.  Checked under SpecCal.         *)
(***************************************************************************)
C1_StartDayRecurrence ==
    FebruarySet =>
        \A mm \in 0..11 :
            /\ month_start_day(call.y, mm, num_days) \in 0..6
            /\ mm < 11 =>
                 month_start_day(call.y, mm + 1, num_days)
                   = (month_start_day(call.y, mm, num_days) + daysInMonth(call.y, mm)) % 7

\* Witness of C1: a leap year rendered across February, with the start days in use.
C1_Witness ==
    /\ pc = "done"
    /\ is_leap_year(call.y)
    /\ call.m <= 1 /\ call.m + call.n > 2
    /\ num_days[1] = 29

(***************************************************************************)
(* C2.  run never renders a month past December: every print_calendar call *)
(* has 0 <= m, n >= 1 and m + n <= 12; and when the count is not 12 (and   *)
(* the run is not "-y without -m") the months rendered number              *)
(* min(max(n, 1), 12 - m).  Checked under Spec.                            *)
(***************************************************************************)
C2_NeverPastDecember ==
    /\ \A j \in 1..Len(calls) :
          /\ calls[j].m >= 0
          /\ calls[j].n >= 1
          /\ calls[j].m + calls[j].n <= 12
    /\ (pc = "done" /\ ~YearOnly /\ arg.n # 12) =>
          MonthsIn(calls, Len(calls)) = Min(Max(arg.n, 1), 12 - StartMonth)

\* Witness of C2: a count that reaches past December was clamped, over several batches.
C2_Witness ==
    /\ pc = "done" /\ ~YearOnly /\ arg.n # 12
    /\ StartMonth + arg.n > 12
    /\ Len(calls) >= 2
    /\ calls[Len(calls)].m + calls[Len(calls)].n = 12

(***************************************************************************)
(* C3.  Rendering January 2023 alone without week numbers gives the        *)
(* heading "January 2023" centred in 20 characters, the weekday line, and  *)
(* a first row of four blank cells followed by the days 1..4.  As stated,  *)
(* this fails: C3_Original.  Checked under Spec.                           *)
(***************************************************************************)
C3_Original ==
    (pc = "done" /\ January2023) =>
        /\ out[1] = print_spaces(4) \o "January 2023" \o print_spaces(4) \o print_spaces(2)
        /\ out[2] = "Su Mo Tu We Th Fr Sa" \o print_spaces(2)
        /\ out[3] = print_spaces(12) \o " 1  2  3  4 "
        /\ printed[0][1].col = 4

(***************************************************************************)
(* C3, amended.  The heading and the weekday line are as claimed; the      *)
(* first row has no blank cell and holds the days 1..7, January 2023       *)
(* starting in the first weekday column (Sunday).                          *)
(***************************************************************************)
C3_Amended ==
    (pc = "done" /\ January2023) =>
        /\ out[1] = print_spaces(4) \o "January 2023" \o print_spaces(4) \o print_spaces(2)
        /\ out[2] = "Su Mo Tu We Th Fr Sa" \o print_spaces(2)
        /\ out[3] = " 1  2  3  4  5  6  7 "
        /\ printed[0][1].col = 0
        /\ { printed[0][j].day : j \in { q \in 1..Len(printed[0]) : printed[0][q].row = 0 } }
             = 1..7

\* Witness of C3: january 2023 has been rendered: heading, weekday line and five week-rows.
C3_Witness == pc = "done" /\ January2023 /\ Len(out) = 7

(***************************************************************************)
(* C4.  In print_day_numbers day k of a month with start weekday s is      *)
(* printed in week-row (s + k - 1) div 7 at weekday column                 *)
(* (s + k - 1) mod 7 (three characters per column, after the months to its *)
(* left), so a month of d days occupies ceil((s + d) / 7) week-rows: 5 for *)
(* 31 days from a Sunday, 4 for 28 days from a Sunday.  Checked under      *)
(* SpecCal.                                                                *)
(***************************************************************************)
C4_DayPlacement ==
    InGrid =>
        \A k \in 0..(call.n - 1) :
            LET sd == month_start_day(call.y, call.m + k, num_days)
                d == num_days[call.m + k]
            IN  /\ \A j \in 1..Len(printed[k]) :
                      LET e == printed[k][j]
                      IN  /\ e.row = (sd + e.day - 1) \div 7
                          /\ e.col = (sd + e.day - 1) % 7
                          /\ e.pos = k * (22 + 4 * call.w) + 3 * call.w + 3 * e.col
                /\ pc = "done" =>
                      /\ Cardinality(RowsOf(k)) = (sd + d + 6) \div 7
                      /\ (sd = 0 /\ d = 31) => Cardinality(RowsOf(k)) = 5
                      /\ (sd = 0 /\ d = 28) => Cardinality(RowsOf(k)) = 4

\* Witness of C4: a 28-day month that starts on a Sunday has been printed in four week-rows.
C4_Witness ==
    /\ pc = "done"
    /\ \E k \in 0..(call.n - 1) :
          /\ month_start_day(call.y, call.m + k, num_days) = 0
          /\ num_days[call.m + k] = 28
          /\ Len(printed[k]) = 28
          /\ Cardinality(RowsOf(k)) = 4

(***************************************************************************)
(* C5.  The week number a month starts with is 1 + floor(D / 7), D being   *)
(* the days of the year before the month, and nothing else.  As stated,    *)
(* this fails: C5_Original.  Checked under SpecCal.                        *)
(***************************************************************************)
C5_Original ==
    (GridFresh /\ call.w = 1) =>
        \A k \in 0..(call.n - 1) :
            week[k] = 1 + (DaysBefore(call.y, call.m + k) \div 7)

(***************************************************************************)
(* C5, amended.  The week number a month starts with is                    *)
(* 1 + floor((J + D) / 7), J being the weekday of January 1 of the year    *)
(* (month_start_day(y, 0)) and D the days of the year before the month.    *)
(***************************************************************************)
C5_Amended ==
    (GridFresh /\ call.w = 1) =>
        \A k \in 0..(call.n - 1) :
            week[k] = 1 + ((month_start_day(call.y, 0, num_days)
                              + DaysBefore(call.y, call.m + k)) \div 7)

\* Witness of C5: a month whose start week is not 1 + floor(D / 7) is about to be printed.
C5_Witness ==
    /\ GridFresh /\ call.w = 1
    /\ \E k \in 0..(call.n - 1) :
          week[k] = 2 + (DaysBefore(call.y, call.m + k) \div 7)

(***************************************************************************)
(* C6.  Unless the run is "-y without -m", the first month rendered is the *)
(* month given with -m, or the current month, for every count, 12          *)
(* included.  The code does otherwise: TLC refutes C6_StartsAtStartMonth   *)
(* under Spec.                                                             *)
(***************************************************************************)
C6_StartsAtStartMonth ==
    (Len(calls) >= 1 /\ ~YearOnly) =>
        /\ calls[1].m = StartMonth
        /\ \A j \in 1..Len(calls) : calls[j].m >= StartMonth

(***************************************************************************)
(* C7.  When the resolved count is above 3 (and not the full-year case),   *)
(* run renders batches of 3, ..., 3, r months with r in 1..3, each after   *)
(* one blank line written by run, starting at months m, m+3, m+6, ...,     *)
(* covering m..m+n-1 once each, none with the year in the heading.         *)
(* Checked under Spec.                                                     *)
(***************************************************************************)
C7_Batches ==
    (pc = "done" /\ ~YearOnly /\ arg.n # 12 /\ ResolvedCount > 3) =>
        LET count == Len(calls)
            r == ResolvedCount - 3 * (count - 1)
        IN  /\ count = (ResolvedCount + 2) \div 3
            /\ r \in 1..3
            /\ \A j \in 1..count :
                  /\ calls[j].m = StartMonth + 3 * (j - 1)
                  /\ calls[j].n = IF j < count THEN 3 ELSE r
                  /\ calls[j].s = 0
                  /\ calls[j].nl = 1
                  /\ out[calls[j].at] = ""
                  /\ out[calls[j].at + 1]
                       = heading_names(y, calls[j].m, calls[j].n, w, 0, 0)

\* Witness of C7: eight months from a given month: batches of 3, 3 and 2.
C7_Witness ==
    /\ pc = "done" /\ ~YearOnly /\ arg.n = 8
    /\ Len(calls) = 3
    /\ calls[3].n = 2

(***************************************************************************)
(* C8.  The output of print_day_numbers ends with a blank line: an empty   *)
(* line follows the last week-row.  As stated, this fails: C8_Original.    *)
(* Checked under SpecCal.                                                  *)
(***************************************************************************)
C8_Original ==
    pc = "done" => (line = "" /\ out[Len(out)] = "")

(***************************************************************************)
(* C8, amended.  print_day_numbers writes one newline after the loop.  It  *)
(* leaves an empty line at the end of the output exactly when the last day *)
(* printed is in the Saturday column of the last month of the batch;       *)
(* otherwise the newline only ends the last week-row.                      *)
(***************************************************************************)
C8_Amended ==
    pc = "done" =>
        /\ line = ""
        /\ Len(out) = grid_base + LastRow + (IF EndsOnLastSaturday THEN 2 ELSE 1)
        /\ (out[Len(out)] = "") <=> EndsOnLastSaturday

\* Witness of C8: a batch of three months whose last day fills a Saturday of the last month.
C8_Witness ==
    /\ pc = "done"
    /\ call.n = 3
    /\ EndsOnLastSaturday
    /\ out[Len(out)] = ""

(***************************************************************************)
(* C9.  The width in which print_year centres the year equals the width of *)
(* a row of three months, from the first column of the first month to the  *)
(* last column of the third month's weekday labels, with and without week  *)
(* numbers.  The code does otherwise: TLC refutes C9_YearWidthIsRowWidth   *)
(* under Spec.                                                             *)
(***************************************************************************)
C9_YearWidthIsRowWidth ==
    (pc = "print_day_numbers" /\ ret = "print_year_ret") =>
        \* the last line written is the weekday line, which ends with the gutter
        heading_len = Len(out[Len(out)]) - Len(print_spaces(2 + call.w))

(***************************************************************************)
(* What C10 says of every state of the day-grid loop: each month's days    *)
(* are printed once and in increasing order, remaining_days is the number  *)
(* of days not yet printed, and it is 0 exactly when every days_printed[i] *)
(* is num_days[m + i] + 1.                                                 *)
(***************************************************************************)
GridProgress ==
    InGrid =>
        LET left == [k \in 0..(call.n - 1) |-> num_days[call.m + k] - Len(printed[k])]
        IN  /\ \A k \in 0..(call.n - 1) :
                  /\ left[k] >= 0
                  /\ days_printed[k] = Len(printed[k]) + 1
                  /\ \A j \in 1..Len(printed[k]) : printed[k][j].day = j
            /\ remaining_days
                 = left[0] + (IF call.n > 1 THEN left[1] ELSE 0)
                           + (IF call.n > 2 THEN left[2] ELSE 0)
            /\ (remaining_days = 0)
                 <=> \A k \in 0..(call.n - 1) : days_printed[k] = num_days[call.m + k] + 1
            /\ pc = "done" => remaining_days = 0

(***************************************************************************)
(* C10.  The day-grid loop of print_day_numbers terminates, and when it    *)
(* does every month of the batch has had each of its days printed once, in *)
(* increasing order; the loop never spins on exhausted months.  Checked    *)
(* under FairSpecCal.                                                      *)
(***************************************************************************)
C10_GridTerminates == [] GridProgress /\ <>(pc = "done")

\* Witness of C10: a batch of three months with week numbers has been printed to its last day.
C10_Witness ==
    /\ pc = "done"
    /\ call.n = 3 /\ call.w = 1
    /\ remaining_days = 0
    /\ \A k \in 0..2 : Len(printed[k]) = num_days[call.m + k]

====
